---- MODULE Spec2Model ----
(***************************************************************************)
(* The chunked-upload assembly and document-conversion routes of the       *)
(* tools backend (src/unnamed/part_000, lines 113-381): /upload-chunk,     *)
(* /assemble-upload, /image-to-pdf and /pdf-to-images, with the scratch    *)
(* file system and the in-memory registry (tempStore) they share.          *)
(*                                                                         *)
(* File names that the code compares (chunk_<index>, page-<n>.png) are     *)
(* sequences of character codes, so that sorting them is computed and not  *)
(* assumed. Opaque names (upload ids, registry keys, paths) are strings.   *)
(***************************************************************************)
EXTENDS Integers, Sequences, FiniteSets, TLC

(* ------------------------------ bounds -------------------------------- *)

\* upload-chunk requests in one behaviour
MaxUploads == 2
\* assemble-upload requests in one behaviour
MaxAssembles == 2
\* distinct readings Date.now() can give beyond the first
MaxClock == 1
\* image-to-pdf requests in one behaviour
MaxConversions == 1
\* sources (uploaded images or registry keys) of one image-to-pdf request
MaxSources == 2
\* pdf-to-images requests in one behaviour
MaxRasterizations == 1
\* pages of a document given to pdf-to-images
MaxPages == 10

(* --------------------------- request inputs --------------------------- *)

\* An absent or empty text field: both are falsy in the code's `x || ...`.
None == ""
NoIndex == << >>
NoFilename == << >>

UploadIds == {"u1"}

\* The chunk indices clients send: "1", "2" and "10" as character codes.
ChunkIndices == { <<49>>, <<50>>, <<49, 48>> }

\* File names as path segments: "a.png", "b.pdf", "d/a.png".
Filenames == { <<"a.png">>, <<"b.pdf">>, <<"d", "a.png">> }

(* ------------------------------ strings ------------------------------- *)

\* "chunk_"
ChunkPrefix == <<99, 104, 117, 110, 107, 95>>

\* The first twelve digits of a 13-digit Date.now() reading; the model's
\* clock supplies the last one.
EpochDigits == <<49, 55, 48, 48, 48, 48, 48, 48, 48, 48, 48, 48>>

DateNowString(t) == EpochDigits \o <<48 + t>>

StartsWith(s, p) == Len(s) >= Len(p) /\ SubSeq(s, 1, Len(p)) = p

\* path.basename of a file name
Basename(f) == f[Len(f)]

\* The order String.prototype.localeCompare gives the characters used here:
\* punctuation ("_", "-", ".") before digits before letters.
CollationWeight(c) ==
    IF c = 95 THEN 1 ELSE IF c = 45 THEN 2 ELSE IF c = 46 THEN 3 ELSE c

LocaleCompare(a, b) ==
    LET n == IF Len(a) < Len(b) THEN Len(a) ELSE Len(b)
        differ == { i \in 1..n : a[i] # b[i] }
    IN  IF differ = {}
        THEN (IF Len(a) < Len(b) THEN -1 ELSE IF Len(a) > Len(b) THEN 1 ELSE 0)
        ELSE LET i == CHOOSE k \in differ : \A m \in differ : k <= m
             IN  IF CollationWeight(a[i]) < CollationWeight(b[i]) THEN -1 ELSE 1

\* Array.prototype.sort((a,b) => a.localeCompare(b)): a stable sort.
RECURSIVE InsertSorted(_, _)
InsertSorted(x, s) ==
    IF s = << >> THEN <<x>>
    ELSE IF LocaleCompare(x, Head(s)) < 0 THEN <<x>> \o s
    ELSE <<Head(s)>> \o InsertSorted(x, Tail(s))

RECURSIVE SortByLocaleCompare(_)
SortByLocaleCompare(s) ==
    IF s = << >> THEN << >>
    ELSE InsertSorted(s[Len(s)], SortByLocaleCompare(SubSeq(s, 1, Len(s) - 1)))

(* ---------------------------- file system ----------------------------- *)

\* crypto.randomBytes(n).toString('hex'): a fresh name at every call.
RandomHex(n) == "r" \o ToString(n)

\* fs.readdirSync: the entries of a directory, in an order the file system
\* chooses.
Readdir(dir) ==
    LET names == DOMAIN dir
        n == Cardinality(names)
    IN  { l \in [1..n -> names] : \A i, j \in 1..n : i # j => l[i] # l[j] }

RECURSIVE FilterChunks(_)
FilterChunks(l) ==
    IF l = << >> THEN << >>
    ELSE IF StartsWith(Head(l), ChunkPrefix)
         THEN <<Head(l)>> \o FilterChunks(Tail(l))
         ELSE FilterChunks(Tail(l))

\* The parts in the order the directory lists them.
UnsortedParts(listing) == FilterChunks(listing)

\* The parts of a session in the order assemble appends them (line 265).
SortedParts(listing) == SortByLocaleCompare(FilterChunks(listing))

\* The bytes the loop of lines 271-276 appends to the output file.
RECURSIVE ConcatParts(_, _)
ConcatParts(dir, parts) ==
    IF parts = << >> THEN << >>
    ELSE dir[Head(parts)] \o ConcatParts(dir, Tail(parts))

\* makeTempKey
makeTempKey(uploadId, filename) == uploadId \o "__" \o Basename(filename)

(* ------------------------------- state -------------------------------- *)

VARIABLES
    chunkDirs,    \* os.tmpdir()/upload_chunks: directory -> (file name -> bytes)
    assembled,    \* os.tmpdir()/assembled_uploads: path -> the bytes written to it
    writeStreams, \* the assembled files whose write stream has not finished
    uploading,    \* the upload-chunk request whose chunk is being written
    drained,      \* history: the sessions assembled, with no chunk put since
    assembling,   \* the assemble-upload request that is between two of its awaits
    owners,       \* history: key -> the (uploadId, filename) pairs that registered it
    tempStore,    \* the registry: key -> path
    nRandom,      \* crypto.randomBytes calls made
    now,          \* the last Date.now() reading
    nUploads,     \* upload-chunk requests handled
    nAssembles,   \* assemble-upload requests handled
    registered,   \* history: key -> the paths registered for it, in order
    stored,       \* history: directory -> (index -> the bytes last put for it)
    i2p,          \* the image-to-pdf request in flight
    nConversions, \* image-to-pdf requests started
    p2i,          \* the pdf-to-images request in flight
    nRasterizations, \* pdf-to-images requests started
    pdfScratch,   \* os.tmpdir()/pdf_to_images: the uploaded documents written there
    workDirs,     \* os.tmpdir()/pdf_images_*: directory -> (file name -> page shown)
    timers,       \* the pending setTimeout cleanups: directory -> files, minutes elapsed
    rasterRuns,   \* history: the documents pdftoppm was run on
    last          \* the last request answered and the response it got

vars == <<chunkDirs, assembled, writeStreams, uploading, drained, assembling, owners, tempStore, nRandom, now, nUploads, nAssembles,
          registered, stored, i2p, nConversions, p2i, nRasterizations, pdfScratch,
          workDirs, timers, rasterRuns, last>>

chunkVars == <<chunkDirs, assembled, writeStreams, uploading, drained, assembling, owners,
               tempStore, now,
               nUploads, nAssembles, registered, stored>>
pdfVars == <<i2p, nConversions>>
rasterVars == <<p2i, nRasterizations, pdfScratch, workDirs, timers, rasterRuns>>

Init ==
    /\ chunkDirs = << >>
    /\ assembled = << >>
    /\ writeStreams = {}
    /\ uploading = [pc |-> "idle"]
    /\ drained = {}
    /\ assembling = [pc |-> "idle"]
    /\ owners = << >>
    /\ tempStore = << >>
    /\ nRandom = 0
    /\ now = 0
    /\ nUploads = 0
    /\ nAssembles = 0
    /\ registered = << >>
    /\ stored = << >>
    /\ i2p = [pc |-> "idle"]
    /\ nConversions = 0
    /\ p2i = [pc |-> "idle"]
    /\ nRasterizations = 0
    /\ pdfScratch = {}
    /\ workDirs = << >>
    /\ timers = << >>
    /\ rasterRuns = << >>
    /\ last = [op |-> "none"]

\* tempStore.get(k)
Resolve(store, k) == IF k \in DOMAIN store THEN store[k] ELSE None

\* The registry replaced by one holding the new entry alone.
RegisterAlone(store, k, p) == (k :> p)

\* tempStore.set(k, p)
Register(store, k, p) == (k :> p) @@ store

\* The request just answered, with what the model keeps about it (info) and
\* the response sent (res).
Answer(info, res) == info @@ [res |-> res]

(* ---------------------------- upload-chunk ---------------------------- *)

\* The `destination` callback (lines 236-241): the session directory, named
\* by req.body.uploadId or, without one, by 8 random bytes.
destination(bodyUploadId, random) ==
    IF bodyUploadId # None THEN bodyUploadId ELSE random

\* The index the `filename` callback uses (line 243): req.body.chunkIndex or,
\* without one, Date.now().
StoredIndex(bodyChunkIndex, t) ==
    IF bodyChunkIndex # NoIndex THEN bodyChunkIndex ELSE DateNowString(t)

\* Line 244: `chunk_${idx}`
ChunkName(idx) == ChunkPrefix \o idx

\* The idx of a name made at line 244.
IndexOfChunk(name) == SubSeq(name, Len(ChunkPrefix) + 1, Len(name))

\* fs.mkdirSync(dir, { recursive: true })
Mkdir(dirs, d) == IF d \in DOMAIN dirs THEN dirs ELSE (d :> << >>) @@ dirs

\* The file opened with the flag 'wx': a file of that name is kept.
WriteFileExclusive(dir, name, bytes) ==
    IF name \in DOMAIN dir THEN dir ELSE (name :> bytes) @@ dir

\* multer's disk storage writes the part to dir/name through
\* fs.createWriteStream: a file of that name is replaced.
WriteFile(dir, name, bytes) == (name :> bytes) @@ dir

\* One /upload-chunk request. uid and idx are the uploadId and chunkIndex
\* fields the client sent (None, NoIndex: not sent); early says whether the
\* text fields came before the file part, so that req.body holds them when
\* the storage callbacks run; hasFile whether a `chunk` part was sent;
\* writeOk whether the file could be created on disk. The chunk's bytes are
\* the request's number, so that every write can be told from the others.
UploadChunk(uid, idx, early, hasFile, writeOk) ==
    /\ nUploads < MaxUploads
    /\ nUploads' = nUploads + 1
    /\ uploading.pc = "idle"
    /\ UNCHANGED <<assembled, writeStreams, uploading, assembling, owners, tempStore,
                   nAssembles, registered,
                   pdfVars, rasterVars>>
    /\ LET request == [op |-> "upload", uploadId |-> uid, chunkIndex |-> idx,
                       early |-> early, hasFile |-> hasFile]
       IN  IF ~hasFile
           THEN \* req.file is undefined: line 251 throws unless uploadId was sent
                /\ UNCHANGED <<chunkDirs, stored, nRandom, now, drained>>
                /\ last' = IF uid # None
                           THEN Answer(request, [status |-> 200, uploadId |-> uid,
                                                 chunkIndex |-> idx])
                           ELSE Answer(request, [status |-> 500,
                                                 error |-> "Chunk upload failed"])
           ELSE LET bodyUid == IF early THEN uid ELSE None
                    bodyIdx == IF early THEN idx ELSE NoIndex
                    dirId == destination(bodyUid, RandomHex(nRandom + 1))
                    bytes == <<nUploads + 1>>
                IN  /\ nRandom' = IF bodyUid # None THEN nRandom ELSE nRandom + 1
                    /\ \E t \in now..MaxClock :
                         LET index == StoredIndex(bodyIdx, t)
                             name == ChunkName(index)
                             made == Mkdir(chunkDirs, dirId)
                             logged == Mkdir(stored, dirId)
                         IN  /\ (bodyIdx # NoIndex => t = now)
                             /\ now' = t
                             /\ IF writeOk
                                THEN /\ chunkDirs' = [made EXCEPT ![dirId] =
                                                        WriteFile(made[dirId], name, bytes)]
                                     /\ stored' = [logged EXCEPT ![dirId] =
                                                        (index :> bytes) @@ logged[dirId]]
                                     /\ drained' = drained \ {dirId}
                                     /\ last' = Answer(request @@ [dir |-> dirId, name |-> name,
                                                                   bytes |-> bytes],
                                                       [status |-> 200,
                                                        uploadId |-> IF uid # None THEN uid
                                                                     ELSE dirId,
                                                        chunkIndex |-> idx])
                                ELSE \* the write fails: index.js, lines 68-81, answers
                                     /\ chunkDirs' = made
                                     /\ stored' = logged
                                     /\ UNCHANGED drained
                                     /\ last' = Answer(request, [status |-> 500,
                                                                 error |-> "Server error"])

(* --------------------------- assemble-upload -------------------------- *)

\* The check of line 266 left out.
NoPartsUnchecked(parts) == FALSE

\* Line 266: parts.length === 0
NoParts(parts) == parts = << >>

\* The parts left where they are.
RemovePartsKept(dirs, uid, parts) == dirs

\* Lines 279-280: unlinkSync of every listed part, then rmdirSync, which
\* removes the directory only when it is empty.
RemoveParts(dirs, uid, parts) ==
    LET names == { parts[i] : i \in 1..Len(parts) }
        left == [n \in DOMAIN dirs[uid] \ names |-> dirs[uid][n]]
    IN  IF DOMAIN left = {}
        THEN [d \in DOMAIN dirs \ {uid} |-> dirs[d]]
        ELSE [dirs EXCEPT ![uid] = left]

\* The history of a key, with one more registration.
Owned(history, key, uid, filename) ==
    (key :> (IF key \in DOMAIN history THEN history[key] ELSE {})
                \cup {[uploadId |-> uid, filename |-> filename]}) @@ history

\* One /assemble-upload request with body { uploadId: uid, filename }, run
\* with no other request handled between its awaits.
AssembleUpload(uid, filename) ==
    /\ nAssembles < MaxAssembles
    /\ nAssembles' = nAssembles + 1
    /\ UNCHANGED <<now, nUploads, uploading, assembling, pdfVars, rasterVars>>
    /\ LET request == [op |-> "assemble", uploadId |-> uid, filename |-> filename]
       IN  IF uid = None \/ filename = NoFilename
           THEN /\ last' = Answer(request, [status |-> 400,
                                            error |-> "uploadId and filename required"])
                /\ UNCHANGED <<chunkDirs, stored, assembled, writeStreams, drained, tempStore,
                               nRandom, registered, owners>>
           ELSE IF uid \notin DOMAIN chunkDirs
           THEN /\ last' = Answer(request, [status |-> 400,
                                            error |-> "No chunks found for uploadId"])
                /\ UNCHANGED <<chunkDirs, stored, assembled, writeStreams, drained, tempStore,
                               nRandom, registered, owners>>
           ELSE \E listing \in Readdir(chunkDirs[uid]) :
                  LET parts == SortedParts(listing) IN
                  IF NoParts(parts)
                  THEN /\ last' = Answer(request, [status |-> 400,
                                                   error |-> "No chunks found"])
                       /\ UNCHANGED <<chunkDirs, stored, assembled, writeStreams, drained,
                                      tempStore, nRandom, registered, owners>>
                  ELSE LET outFile == RandomHex(nRandom + 1) \o "_" \o Basename(filename)
                           key == makeTempKey(uid, filename)
                       IN  /\ nRandom' = nRandom + 1
                           /\ assembled' = (outFile :> ConcatParts(chunkDirs[uid], parts))
                                              @@ assembled
                           /\ writeStreams' = writeStreams \cup {outFile}
                           /\ drained' = drained \cup {uid}
                           /\ chunkDirs' = RemoveParts(chunkDirs, uid, parts)
                           /\ stored' = [d \in DOMAIN chunkDirs' |->
                                           IF d = uid THEN << >> ELSE stored[d]]
                           /\ tempStore' = Register(tempStore, key, outFile)
                           /\ registered' =
                                (key :> (IF key \in DOMAIN registered THEN registered[key]
                                         ELSE << >>) \o <<outFile>>) @@ registered
                           /\ owners' = Owned(owners, key, uid, filename)
                           /\ last' = Answer(request @@ [outFile |-> outFile,
                                                         listing |-> listing, parts |-> parts,
                                                         chunks |-> chunkDirs[uid],
                                                         puts |-> stored[uid],
                                                         inFlight |-> uploading],
                                             [status |-> 200, tempKey |-> key])

\* The catch of line 284
AssembleFailed == [status |-> 500, error |-> "Assemble failed"]

\* An /assemble-upload request that passes the checks of lines 262-266 runs
\* to its first await (line 275): the parts are listed and sorted, the
\* output file is created, and the read of the first part is started.
AssembleBegin(uid, filename) ==
    /\ assembling.pc = "idle"
    /\ nAssembles < MaxAssembles
    /\ uid # None /\ filename # NoFilename
    /\ uid \in DOMAIN chunkDirs
    /\ nAssembles' = nAssembles + 1
    /\ \E listing \in Readdir(chunkDirs[uid]) :
          LET parts == SortedParts(listing)
              outFile == RandomHex(nRandom + 1) \o "_" \o Basename(filename)
          IN  /\ ~NoParts(parts)
              /\ nRandom' = nRandom + 1
              /\ assembled' = (outFile :> << >>) @@ assembled
              /\ writeStreams' = writeStreams \cup {outFile}
              /\ assembling' = [pc |-> "reading", uploadId |-> uid, filename |-> filename,
                                outFile |-> outFile, listing |-> listing, parts |-> parts,
                                pos |-> 1, taken |-> << >>]
    /\ UNCHANGED <<chunkDirs, uploading, drained, owners, tempStore, now, nUploads,
                   registered, stored, pdfVars, rasterVars, last>>

\* appendPartToFile, lines 134-137: the read stream of the part at hand
\* gives the bytes the file holds, and they are written to the output. A
\* part that is no longer there makes the stream fail, and the request ends
\* in the catch of line 284.
AssembleRead ==
    /\ assembling.pc = "reading"
    /\ LET uid == assembling.uploadId
           part == assembling.parts[assembling.pos]
       IN  IF uid \in DOMAIN chunkDirs /\ part \in DOMAIN chunkDirs[uid]
           THEN /\ assembled' = [assembled EXCEPT ![assembling.outFile] =
                                    @ \o chunkDirs[uid][part]]
                /\ assembling' = [assembling EXCEPT
                                    !.pc = "ending",
                                    !.taken = (part :> chunkDirs[uid][part]) @@ @]
                /\ UNCHANGED last
           ELSE /\ assembling' = [pc |-> "idle"]
                /\ last' = Answer([op |-> "assemble", uploadId |-> uid,
                                    filename |-> assembling.filename], AssembleFailed)
                /\ UNCHANGED assembled
    /\ UNCHANGED <<chunkDirs, writeStreams, uploading, drained, owners, tempStore, now,
                   nUploads, nAssembles, registered, stored, nRandom, pdfVars, rasterVars>>

\* The read stream of the part at hand has ended (line 136). The loop goes
\* on with the next part; after the last one lines 277-283 end the output,
\* remove the parts listed, register the key and answer.
AssembleEnd ==
    /\ assembling.pc = "ending"
    /\ UNCHANGED <<uploading, now, nUploads, nAssembles, nRandom, pdfVars, rasterVars,
                   assembled, writeStreams>>
    /\ IF assembling.pos < Len(assembling.parts)
       THEN /\ assembling' = [assembling EXCEPT !.pc = "reading", !.pos = @ + 1]
            /\ UNCHANGED <<chunkDirs, drained, owners, tempStore, registered, stored, last>>
       ELSE LET uid == assembling.uploadId
                parts == assembling.parts
                key == makeTempKey(uid, assembling.filename)
                dirs == IF uid \in DOMAIN chunkDirs THEN RemoveParts(chunkDirs, uid, parts)
                        ELSE chunkDirs
                puts == IF uid \in DOMAIN stored THEN stored[uid] ELSE << >>
            IN  /\ assembling' = [pc |-> "idle"]
                /\ chunkDirs' = dirs
                /\ stored' = [d \in DOMAIN dirs |->
                                IF d = uid
                                THEN [idx \in { i \in DOMAIN stored[d] :
                                                  ChunkName(i) \in DOMAIN dirs[d] }
                                        |-> stored[d][idx]]
                                ELSE stored[d]]
                /\ drained' = IF uid \in DOMAIN dirs THEN drained \ {uid}
                              ELSE drained \cup {uid}
                /\ tempStore' = Register(tempStore, key, assembling.outFile)
                /\ registered' =
                     (key :> (IF key \in DOMAIN registered THEN registered[key]
                              ELSE << >>) \o <<assembling.outFile>>) @@ registered
                /\ owners' = Owned(owners, key, uid, assembling.filename)
                /\ last' = Answer([op |-> "assemble", uploadId |-> uid,
                                   filename |-> assembling.filename,
                                   outFile |-> assembling.outFile,
                                   listing |-> assembling.listing, parts |-> parts,
                                   chunks |-> assembling.taken, puts |-> puts,
                                   inFlight |-> uploading,
                                   left |-> IF uid \in DOMAIN dirs THEN dirs[uid] ELSE << >>],
                                  [status |-> 200, tempKey |-> key])

\* Line 277: ws.end() starts the end of the write stream and is not waited
\* for; the stream's 'finish' comes in a later turn of the event loop, once
\* the bytes buffered are on disk. Here it has come for one file.
FinishWrite(path) ==
    /\ path \in writeStreams
    /\ writeStreams' = writeStreams \ {path}
    /\ UNCHANGED <<chunkDirs, assembled, uploading, drained, assembling, owners, tempStore,
                   now, nUploads,
                   nAssembles, registered, stored, nRandom, pdfVars, rasterVars, last>>

\* The bytes of the chunk of the n-th upload-chunk request, when written in
\* two pieces.
StreamedBytes(n) == <<n, n>>

\* An /upload-chunk request whose fields came before the chunk: multer has
\* run the storage callbacks (lines 236-245) and created dir/chunk_<idx>,
\* which so far holds the first `written` bytes of the part.
UploadChunkBegin(uid, idx, written) ==
    /\ uploading.pc = "idle"
    /\ nUploads < MaxUploads
    /\ nUploads' = nUploads + 1
    /\ LET dirId == destination(uid, RandomHex(nRandom + 1))
           name == ChunkName(StoredIndex(idx, now))
           bytes == StreamedBytes(nUploads + 1)
           made == Mkdir(chunkDirs, dirId)
       IN  /\ chunkDirs' = [made EXCEPT ![dirId] =
                              WriteFile(made[dirId], name, SubSeq(bytes, 1, written))]
           /\ stored' = Mkdir(stored, dirId)
           /\ drained' = drained \ {dirId}
           /\ uploading' = [pc |-> "writing", dir |-> dirId, name |-> name, bytes |-> bytes,
                            written |-> written,
                            request |-> [op |-> "upload", uploadId |-> uid,
                                         chunkIndex |-> idx, early |-> TRUE,
                                         hasFile |-> TRUE]]
    /\ UNCHANGED <<assembled, writeStreams, assembling, owners, tempStore, now, nAssembles,
                   registered, nRandom,
                   pdfVars, rasterVars, last>>

\* The rest of the part is written and the handler answers (lines 248-254).
\* The bytes go to the file that was opened: when an assemble has unlinked
\* it since, no directory holds them.
UploadChunkEnd ==
    /\ uploading.pc = "writing"
    /\ uploading' = [pc |-> "idle"]
    /\ LET dirId == uploading.dir
           name == uploading.name
           linked == dirId \in DOMAIN chunkDirs /\ name \in DOMAIN chunkDirs[dirId]
       IN  /\ IF linked
              THEN /\ chunkDirs' = [chunkDirs EXCEPT ![dirId] =
                                      WriteFile(chunkDirs[dirId], name, uploading.bytes)]
                   /\ stored' = [stored EXCEPT ![dirId] =
                                   (IndexOfChunk(name) :> uploading.bytes) @@ stored[dirId]]
              ELSE UNCHANGED <<chunkDirs, stored>>
           /\ last' = Answer(uploading.request @@ [dir |-> dirId, name |-> name,
                                                   bytes |-> uploading.bytes,
                                                   linked |-> linked],
                             [status |-> 200, uploadId |-> uploading.request.uploadId,
                              chunkIndex |-> uploading.request.chunkIndex])
    /\ UNCHANGED <<assembled, writeStreams, drained, assembling, owners, tempStore, now,
                   nUploads, nAssembles,
                   registered, nRandom, pdfVars, rasterVars>>

(* ---------------------------- image-to-pdf ---------------------------- *)

\* The images a client uploads directly (multer memory buffers).
Images == {"imgA", "imgB"}

\* The lists of at most n distinct elements of S.
ListsOf(S, n) ==
    UNION { { l \in [1..k -> S] : \A i, j \in 1..k : i # j => l[i] # l[j] } : k \in 0..n }

\* Lines 153-159: the keys of req.body.tempKeys resolved in order; the first
\* key the registry does not hold ends the request.
RECURSIVE ResolveKeys(_, _)
ResolveKeys(store, keys) ==
    IF keys = << >> THEN [missing |-> None, files |-> << >>]
    ELSE IF Resolve(store, Head(keys)) = None
         THEN [missing |-> Head(keys), files |-> << >>]
         ELSE LET rest == ResolveKeys(store, Tail(keys))
              IN  [missing |-> rest.missing,
                   files |-> <<[path |-> Resolve(store, Head(keys)),
                                originalname |-> Head(keys)]>> \o rest.files]

\* Line 161: req.files.map(f => ({ buffer, originalname }))
UploadedFiles(uploads) ==
    [i \in 1..Len(uploads) |-> [buffer |-> uploads[i], originalname |-> uploads[i]]]

\* The page put at the front of the document.
AddPageFirst(pages, file, layout) == <<[image |-> file, layout |-> layout]>> \o pages

\* Lines 214-215 / 220-221: doc.addPage and doc.image put one page, showing
\* the source just read, at the end of the document.
AddPage(pages, file, layout) == Append(pages, [image |-> file, layout |-> layout])

(* JavaScript numbers: an integer, or NaN. *)
Num(n) == [nan |-> FALSE, val |-> n]
NaN == [nan |-> TRUE, val |-> 0]

MathMin(a, b) ==
    IF a.nan \/ b.nan THEN NaN ELSE IF a.val <= b.val THEN a ELSE b

MathMax(a, b) ==
    IF a.nan \/ b.nan THEN NaN ELSE IF a.val >= b.val THEN a ELSE b

\* The longest prefix of s made of decimal digits.
RECURSIVE LeadingDigits(_)
LeadingDigits(s) ==
    IF s = << >> \/ Head(s) < 48 \/ Head(s) > 57 THEN << >>
    ELSE <<Head(s)>> \o LeadingDigits(Tail(s))

RECURSIVE DigitsValue(_)
DigitsValue(d) ==
    IF d = << >> THEN 0 ELSE 10 * DigitsValue(SubSeq(d, 1, Len(d) - 1)) + (d[Len(d)] - 48)

\* parseInt(s, 10): an optional sign, then the leading digits; NaN without any.
ParseInt(s) ==
    LET signed == s # << >> /\ Head(s) \in {43, 45}
        digits == LeadingDigits(IF signed THEN Tail(s) ELSE s)
    IN  IF digits = << >> THEN NaN
        ELSE IF signed /\ Head(s) = 45 THEN Num(0 - DigitsValue(digits))
        ELSE Num(DigitsValue(digits))

\* The quality field of a request: a string, as character codes. The empty
\* string stands for an absent field as well: both are falsy.
NoQuality == << >>

\* Line 169: Math.max(5, Math.min(100, parseInt(req.body.quality || '80', 10)))
Quality(field) ==
    MathMax(Num(5), MathMin(Num(100), ParseInt(IF field = NoQuality THEN <<56, 48>>
                                                ELSE field)))

\* Lengths are in hundredths of a point. parsed is parseFloat(req.body.margin
\* || '0'); line 168: Math.max(0, parsed || 0).
Margin(parsed) ==
    MathMax(Num(0), IF parsed.nan \/ parsed.val = 0 THEN Num(0) ELSE parsed).val

\* Math.round(n / d) for d > 0: the nearest integer, halves upwards.
Round(n, d) == (2 * n + d) \div (2 * d)

Points(n) == 100 * n

\* String.prototype.toLowerCase, on the page sizes requested here.
ToLowerCase(str) ==
    CASE str = "A4" -> "a4"
      [] str = "A3" -> "a3"
      [] str = "Letter" -> "letter"
      [] OTHER -> str

\* Lines 183-186
presets == [a4 |-> <<59528, 84189>>, letter |-> <<61200, 79200>>]

\* Line 166 and the test of line 203: the preset named, None for auto.
PresetNamed(pageSizeField) ==
    LET pageSize == IF pageSizeField = None THEN "auto" ELSE pageSizeField
    IN  IF ToLowerCase(pageSize) # "auto" /\ ToLowerCase(pageSize) \in DOMAIN presets
        THEN ToLowerCase(pageSize) ELSE None

\* The auto page drawn without its margins.
AutoLayoutNoMargin(margin, width, height) ==
    [size |-> <<Points(width), Points(height)>>, x |-> 0, y |-> 0,
     width |-> Points(width), height |-> Points(height)]

\* Lines 218-221: the page is the image plus the margins.
AutoLayout(margin, width, height) ==
    LET ptsW == IF width >= 1 THEN width ELSE 1
        ptsH == IF height >= 1 THEN height ELSE 1
    IN  [size |-> <<Points(ptsW) + margin * 2, Points(ptsH) + margin * 2>>,
         x |-> margin, y |-> margin,
         width |-> Points(ptsW), height |-> Points(ptsH)]

\* Lines 204-215: the image is scaled down to the page less its margins, and
\* centred. scale = Math.min(maxW / width, maxH / height, 1) is kept as the
\* fraction num / den.
PresetLayout(preset, orientation, margin, width, height) ==
    LET pageDims == IF orientation = "landscape"
                    THEN <<presets[preset][2], presets[preset][1]>>
                    ELSE presets[preset]
        maxW == pageDims[1] - margin * 2
        maxH == pageDims[2] - margin * 2
        byWidth == maxW * height <= maxH * width
        num == IF byWidth THEN maxW ELSE maxH
        den == IF byWidth THEN Points(width) ELSE Points(height)
        noScale == num >= den
        drawW == IF noScale THEN width ELSE Round(width * num, den)
        drawH == IF noScale THEN height ELSE Round(height * num, den)
    IN  [size |-> pageDims,
         x |-> Points(Round(pageDims[1] - Points(drawW), 200)),
         y |-> Points(Round(pageDims[2] - Points(drawH), 200)),
         width |-> Points(drawW), height |-> Points(drawH),
         scale |-> IF noScale THEN <<1, 1>> ELSE <<num, den>>]

\* Lines 199-222 for one source; meta is what sharp's metadata() reports, a
\* dimension it does not report being 0.
PageLayout(params, meta) ==
    LET width == IF meta.width = 0 THEN 800 ELSE meta.width
        height == IF meta.height = 0 THEN 600 ELSE meta.height
        margin == Margin(params.margin)
    IN  IF PresetNamed(params.pageSize) # None
        THEN PresetLayout(PresetNamed(params.pageSize), params.orientation, margin,
                          width, height)
        ELSE AutoLayout(margin, width, height)

\* A request with none of the optional fields, and an image of 800 by 600.
DefaultParams ==
    [pageSize |-> None, orientation |-> None, margin |-> Num(0), quality |-> NoQuality]
DefaultMeta == [width |-> 800, height |-> 600]

\* doc.end() and the 'end' handler of lines 176-181: the document is sent.
SendPdf(pages) ==
    [status |-> 200, contentType |-> "application/pdf", pages |-> pages]

\* The catch ending the document, so that the pages added so far are sent.
ConversionFailedSendsPages(pages) == SendPdf(pages)

\* The catch of lines 226-229.
ConversionFailed(pages) ==
    [status |-> 500, error |-> "Image to PDF conversion failed"]

\* The request arrives: hasKeys says whether req.body.tempKeys is a non-empty
\* string, keys are its entries after split, trim and filter, uploads the
\* files of req.files, params the optional fields. The handler runs to its
\* first await (line 198).
ImageToPdfStart(hasKeys, keys, uploads, params) ==
    /\ i2p.pc = "idle"
    /\ nConversions < MaxConversions
    /\ nConversions' = nConversions + 1
    /\ UNCHANGED <<chunkVars, nRandom, rasterVars>>
    /\ LET request == [op |-> "image-to-pdf", hasKeys |-> hasKeys, keys |-> keys,
                       uploads |-> uploads, params |-> params]
           resolved == ResolveKeys(tempStore, keys)
           files == IF hasKeys THEN resolved.files ELSE UploadedFiles(uploads)
       IN  IF hasKeys /\ resolved.missing # None
           THEN /\ last' = Answer(request, [status |-> 400,
                                        error |-> "Missing assembled file for key",
                                        key |-> resolved.missing])
                /\ UNCHANGED i2p
           ELSE IF ~hasKeys /\ uploads = << >>
           THEN /\ last' = Answer(request, [status |-> 400, error |-> "No images uploaded"])
                /\ UNCHANGED i2p
           ELSE IF files = << >>
           THEN \* the loop body never runs: doc.end() at once
                /\ last' = Answer(request @@ [files |-> files, failed |-> "no",
                                              quality |-> Quality(params.quality),
                                              metas |-> << >>], SendPdf(<< >>))
                /\ UNCHANGED i2p
           ELSE /\ i2p' = [pc |-> "loop", request |-> request, files |-> files,
                           quality |-> Quality(params.quality),
                           pos |-> 1, pages |-> << >>, metas |-> << >>]
                /\ UNCHANGED last

\* One turn of the loop of lines 188-223: sharp reads the source's metadata
\* and re-encodes it (outcome "decode" or "encode": that call rejects; the
\* encoder rejects a quality that is no integer of 1..100), and a page is
\* added. After the last source doc.end() sends the document.
ImageToPdfSource(outcome, meta) ==
    /\ i2p.pc = "loop"
    /\ UNCHANGED <<chunkVars, nRandom, rasterVars, nConversions>>
    /\ LET file == i2p.files[i2p.pos]
           pages == AddPage(i2p.pages, file, PageLayout(i2p.request.params, meta))
           metas == Append(i2p.metas, meta)
           answered == i2p.request @@ [files |-> i2p.files, quality |-> i2p.quality]
           ended == IF outcome = "ok" /\ i2p.quality.nan THEN "encode" ELSE outcome
       IN  IF ended # "ok"
           THEN /\ last' = Answer(answered @@ [failed |-> ended, failedAt |-> i2p.pos],
                                   ConversionFailed(i2p.pages))
                /\ i2p' = [pc |-> "idle"]
           ELSE IF i2p.pos = Len(i2p.files)
           THEN /\ last' = Answer(answered @@ [failed |-> "no", metas |-> metas],
                                   SendPdf(pages))
                /\ i2p' = [pc |-> "idle"]
           ELSE /\ i2p' = [i2p EXCEPT !.pos = @ + 1, !.pages = pages, !.metas = metas]
                /\ UNCHANGED last

(* ---------------------------- pdf-to-images --------------------------- *)

\* "page-", ".png", "page_"
PagePrefix == <<112, 97, 103, 101, 45>>
PngSuffix == <<46, 112, 110, 103>>
EntryPrefix == <<112, 97, 103, 101, 95>>

EndsWith(s, x) == Len(s) >= Len(x) /\ SubSeq(s, Len(s) - Len(x) + 1, Len(s)) = x

\* The decimal digits of n >= 0, as character codes.
RECURSIVE DecimalString(_)
DecimalString(n) ==
    IF n < 10 THEN <<48 + n>> ELSE DecimalString(n \div 10) \o <<48 + (n % 10)>>

RECURSIVE ZeroPad(_, _)
ZeroPad(digits, width) ==
    IF Len(digits) >= width THEN digits ELSE ZeroPad(<<48>> \o digits, width)

\* The name pdftoppm gives the image of page pg of a document of total pages:
\* <prefix>-<pg>.png, the number padded with zeros to the width of the
\* document's page count.
PageFileName(pg, total) ==
    PagePrefix \o ZeroPad(DecimalString(pg), Len(DecimalString(total))) \o PngSuffix

\* What `pdftoppm -png -r 150 <pdf> <workDir>/page` writes for the first
\* `written` pages of a document of `total` pages: file name -> page shown.
PdftoppmOutput(written, total) ==
    LET name == [pg \in 1..written |-> PageFileName(pg, total)]
    IN  [n \in { name[pg] : pg \in 1..written } |->
            CHOOSE pg \in 1..written : name[pg] = n]

\* fs.readdirSync of a working directory. The order is the file system's:
\* the directories here hold up to MaxPages files, and the orders kept are
\* creation order, its reverse, and even pages before odd ones.
ReaddirPages(written, total) ==
    LET asc == [i \in 1..written |-> PageFileName(i, total)]
        desc == [i \in 1..written |-> PageFileName(written + 1 - i, total)]
        nEven == written \div 2
        mixed == [i \in 1..written |->
                    IF i <= nEven THEN PageFileName(2 * i, total)
                    ELSE PageFileName(2 * (i - nEven) - 1, total)]
    IN  {asc, desc, mixed}

RECURSIVE FilterPng(_)
FilterPng(l) ==
    IF l = << >> THEN << >>
    ELSE IF EndsWith(Head(l), PngSuffix)
         THEN <<Head(l)>> \o FilterPng(Tail(l))
         ELSE FilterPng(Tail(l))

\* The generated files in the order the directory lists them.
UnsortedImages(listing) == FilterPng(listing)

\* Line 349: the generated files in the order they are archived.
SortedImages(listing) == SortByLocaleCompare(FilterPng(listing))

\* Line 362: `page_${idx+1}.png`
EntryName(idx) == EntryPrefix \o DecimalString(idx + 1) \o PngSuffix

\* Lines 360-364: archive.file(path.join(workDir, fname), { name: entryName });
\* each entry carries what its file holds when the archive is streamed.
ArchiveEntries(workDir, files, contents) ==
    [i \in 1..Len(files) |->
        [name |-> EntryName(i - 1), dir |-> workDir, file |-> files[i],
         page |-> contents[files[i]]]]

\* The probe resolving true whatever `pdftoppm -v` gave.
checkPdftoppmAlways(err) == TRUE

\* checkPdftoppmAvailable: resolve(false) when `pdftoppm -v` gave an error.
checkPdftoppmAvailable(err) == ~err

\* Line 333
Unavailable ==
    [status |-> 500, error |-> "Server requires pdftoppm (Poppler)"]

\* The catch sending err.message, which quotes the command line.
RasterizationFailedWithMessage(workDir) ==
    [status |-> 500, error |-> "Command failed: pdftoppm", workDir |-> workDir]

\* The catch of lines 375-378
RasterizationFailed(workDir) ==
    [status |-> 500, error |-> "PDF to images conversion failed"]

\* Lines 350-352
NoImages == [status |-> 500, error |-> "No images generated from PDF"]

\* Lines 355-365
SendZip(workDir, files, contents) ==
    [status |-> 200, contentType |-> "application/zip",
     disposition |-> "attachment; filename=images.zip",
     entries |-> ArchiveEntries(workDir, files, contents)]

\* The request arrives; lines 312-328 find the document, and the handler
\* awaits the probe. hasKeys, keys as for image-to-pdf; upload is the file of
\* req.file (None: no file).
PdfToImagesStart(hasKeys, keys, upload) ==
    /\ p2i.pc = "idle"
    /\ nRasterizations < MaxRasterizations
    /\ nRasterizations' = nRasterizations + 1
    /\ UNCHANGED <<chunkVars, pdfVars, workDirs, timers, rasterRuns>>
    /\ LET request == [op |-> "pdf-to-images", hasKeys |-> hasKeys, keys |-> keys,
                       upload |-> upload]
       IN  IF hasKeys
           THEN /\ UNCHANGED <<nRandom, pdfScratch>>
                /\ IF keys = << >>
                   THEN /\ last' = Answer(request, [status |-> 400,
                                                         error |-> "No tempKeys provided"])
                        /\ UNCHANGED p2i
                   ELSE IF Resolve(tempStore, keys[1]) = None
                   THEN /\ last' = Answer(request, [status |-> 400,
                                       error |-> "Missing assembled file for provided tempKey"])
                        /\ UNCHANGED p2i
                   ELSE /\ p2i' = [pc |-> "probe", request |-> request,
                                   pdfPath |-> Resolve(tempStore, keys[1])]
                        /\ UNCHANGED last
           ELSE IF upload # None
           THEN LET outPath == RandomHex(nRandom + 1) \o "_" \o upload
                IN  /\ nRandom' = nRandom + 1
                    /\ pdfScratch' = pdfScratch \cup {outPath}
                    /\ p2i' = [pc |-> "probe", request |-> request, pdfPath |-> outPath]
                    /\ UNCHANGED last
           ELSE /\ last' = Answer(request, [status |-> 400, error |-> "No PDF uploaded"])
                /\ UNCHANGED <<nRandom, pdfScratch, p2i>>

\* `pdftoppm -v` has ended, with an error or not (lines 331-334). When the
\* tool is there, lines 337-346 make the working directory and start it on
\* the document.
PdfToImagesProbe(err) ==
    /\ p2i.pc = "probe"
    /\ UNCHANGED <<chunkVars, pdfVars, nRasterizations, pdfScratch, timers>>
    /\ IF ~checkPdftoppmAvailable(err)
       THEN /\ last' = Answer(p2i.request @@ [probeFailed |-> err], Unavailable)
            /\ p2i' = [pc |-> "idle"]
            /\ UNCHANGED <<nRandom, workDirs, rasterRuns>>
       ELSE LET workDir == "pdf_images_" \o RandomHex(nRandom + 1)
            IN  /\ nRandom' = nRandom + 1
                /\ workDirs' = (workDir :> << >>) @@ workDirs
                /\ rasterRuns' = Append(rasterRuns, [pdf |-> p2i.pdfPath, workDir |-> workDir,
                                                     probeFailed |-> err])
                /\ p2i' = [pc |-> "rasterize", request |-> p2i.request,
                           pdfPath |-> p2i.pdfPath, workDir |-> workDir,
                           probeFailed |-> err]
                /\ UNCHANGED last

\* Line 373: the retention delay of 1000 * 60 * 5 ms, in minutes.
RetentionDelay == 5

\* Lines 368-373: setTimeout(cleanup, 1000 * 60 * 5), for the files archived.
ScheduleCleanup(pending, workDir, files) ==
    (workDir :> [files |-> files, elapsed |-> 0]) @@ pending

\* pdftoppm has ended (lines 341-373): exit is "ok", "nonzero" or "spawn" (it
\* could not be started), total the pages of the document and written the
\* pages it wrote before it ended.
PdfToImagesRasterize(exit, total, written) ==
    /\ p2i.pc = "rasterize"
    /\ UNCHANGED <<chunkVars, pdfVars, nRasterizations, pdfScratch, nRandom, rasterRuns>>
    /\ workDirs' = [workDirs EXCEPT ![p2i.workDir] = PdftoppmOutput(written, total)]
    /\ p2i' = [pc |-> "idle"]
    /\ LET answered == p2i.request @@ [probeFailed |-> p2i.probeFailed, exit |-> exit,
                                       total |-> total, written |-> written,
                                       ranIn |-> p2i.workDir]
       IN  IF exit # "ok"
           THEN /\ last' = Answer(answered, RasterizationFailed(p2i.workDir))
                /\ UNCHANGED timers
           ELSE \E listing \in ReaddirPages(written, total) :
                  LET files == SortedImages(listing)
                  IN  IF files = << >>
                      THEN /\ last' = Answer(answered, NoImages)
                           /\ UNCHANGED timers
                      ELSE /\ last' = Answer(answered, SendZip(p2i.workDir, files,
                                                                PdftoppmOutput(written, total)))
                           /\ timers' = ScheduleCleanup(timers, p2i.workDir, files)

\* The retention delay passes with no request handled: the pending timers
\* have all run out.
TimePasses ==
    /\ \E d \in DOMAIN timers : timers[d].elapsed < RetentionDelay
    /\ timers' = [d \in DOMAIN timers |-> [timers[d] EXCEPT !.elapsed = RetentionDelay]]
    /\ UNCHANGED <<chunkVars, pdfVars, p2i, nRasterizations, pdfScratch, workDirs,
                   rasterRuns, nRandom, last>>

\* The files left in a directory once those named are unlinked.
Unlink(dir, files) ==
    [n \in DOMAIN dir \ { files[i] : i \in 1..Len(files) } |-> dir[n]]

\* Lines 369-372, the timer's callback: unlink the files archived, then
\* rmdir, which removes the directory only when it is empty.
CleanupWorkDir(workDir) ==
    /\ workDir \in DOMAIN timers
    /\ timers[workDir].elapsed >= RetentionDelay
    /\ timers' = [d \in DOMAIN timers \ {workDir} |-> timers[d]]
    /\ LET left == Unlink(workDirs[workDir], timers[workDir].files)
       IN  workDirs' = IF DOMAIN left = {}
                       THEN [d \in DOMAIN workDirs \ {workDir} |-> workDirs[d]]
                       ELSE [workDirs EXCEPT ![workDir] = left]
    /\ UNCHANGED <<chunkVars, pdfVars, p2i, nRasterizations, pdfScratch, rasterRuns,
                   nRandom, last>>

(* --------------------------- specification ---------------------------- *)


\* The registry keys a client may name: those registered, and one that is not.
KeyChoices == DOMAIN tempStore \cup {"u9__x.png"}

Upload(uids, idxs, flags) ==
    \E uid \in uids, idx \in idxs, early \in flags, hasFile \in flags, writeOk \in flags :
        UploadChunk(uid, idx, early, hasFile, writeOk)

Assemble(uids, filenames) ==
    \E uid \in uids, filename \in filenames : AssembleUpload(uid, filename)

ImageToPdf(maxSources, images, fields, sizes) ==
    \/ \E hasKeys \in BOOLEAN, keys \in ListsOf(KeyChoices, maxSources),
          uploads \in ListsOf(images, maxSources), params \in fields :
            /\ (hasKeys \/ keys = << >>)
            /\ ImageToPdfStart(hasKeys, keys, uploads, params)
    \/ \E outcome \in {"ok", "decode", "encode"}, meta \in sizes :
            ImageToPdfSource(outcome, meta)

\* How a run of pdftoppm can end: well, on a document of any of the page
\* counts; with a non-zero exit status, before or after its first page was
\* written; or not started at all.
RasterOutcomes(pageCounts) ==
    { [exit |-> "ok", total |-> k, written |-> k] : k \in pageCounts }
      \cup { [exit |-> "nonzero", total |-> 2, written |-> w] : w \in {0, 1} }
      \cup { [exit |-> "spawn", total |-> 0, written |-> 0] }

PdfToImages(pageCounts, documents) ==
    \/ \E hasKeys \in BOOLEAN, keys \in ListsOf(KeyChoices, 1), upload \in documents :
            /\ (hasKeys \/ keys = << >>)
            /\ PdfToImagesStart(hasKeys, keys, upload)
    \/ \E err \in BOOLEAN : PdfToImagesProbe(err)
    \/ \E run \in RasterOutcomes(pageCounts) :
            PdfToImagesRasterize(run.exit, run.total, run.written)

\* The event loop's timers: time passes, and a timer that ran out calls back.
Timers ==
    \/ TimePasses
    \/ \E workDir \in DOMAIN timers : CleanupWorkDir(workDir)

\* The upload sessions: every kind of upload-chunk and assemble-upload
\* request, in any order.
NextChunks ==
    \/ Upload(UploadIds \cup {None}, ChunkIndices \cup {NoIndex}, BOOLEAN)
    \/ Assemble(UploadIds \cup DOMAIN chunkDirs \cup {None},
                { f \in Filenames : Len(f) = 1 } \cup {NoFilename})

SpecChunks == Init /\ [][NextChunks]_vars

\* The whole router: well-formed uploads of one session, assemblies, and the
\* two conversions on short inputs, their steps interleaved with the other
\* requests, within the retention delay of the archives sent.
Next ==
    \/ Upload({"u1"}, {<<49>>}, {TRUE})
    \/ Assemble({"u1"}, { <<"a.png">>, <<"b.pdf">> })
    \/ ImageToPdf(1, {}, {DefaultParams}, {DefaultMeta})
    \/ PdfToImages({1}, {None})

Spec == Init /\ [][Next]_vars

\* Image to document: sessions are uploaded and assembled, and documents are
\* composed from uploaded images or from assembled files.
NextPdf ==
    \/ Upload({"u1"}, {<<49>>}, {TRUE})
    \/ Assemble({"u1"}, { <<"a.png">>, <<"b.pdf">> })
    \/ ImageToPdf(MaxSources, Images, {DefaultParams}, {DefaultMeta})

SpecPdf == Init /\ [][NextPdf]_vars

\* Uploads written in two pieces, assemblies running between the pieces, and
\* the write streams of the assembled files finishing: one session, chunks
\* "1" and "2".
NextStreams ==
    \/ \E idx \in { <<49>>, <<50>> } : UploadChunkBegin("u1", idx, 1)
    \/ UploadChunkEnd
    \/ Assemble({"u1"}, { <<"a.png">> })
    \/ \E path \in writeStreams : FinishWrite(path)

SpecStreams == Init /\ [][NextStreams]_vars

\* The registry keys: one session, uploaded and assembled several times
\* under every file name, plain or with a directory.
NextKeys ==
    \/ Upload({"u1"}, ChunkIndices, {TRUE})
    \/ Assemble({"u1"}, Filenames)

SpecKeys == Init /\ [][NextKeys]_vars

\* Assemblies taken one await at a time, with whole uploads and whole
\* assemblies of the session handled between the awaits: one session,
\* chunks "1" and "2".
NextInterleaved ==
    \/ Upload({"u1"}, { <<49>>, <<50>> }, {TRUE})
    \/ Assemble({"u1"}, { <<"a.png">> })
    \/ AssembleBegin("u1", <<"a.png">>)
    \/ AssembleRead
    \/ AssembleEnd

SpecInterleaved == Init /\ [][NextInterleaved]_vars

\* The optional fields of the image-to-pdf requests composed: page sizes,
\* orientations and margins (parsed, in hundredths of a point), and quality
\* fields "0", "3", "50", "101", "-3", "abc" and "7.9".
PageSizes == {"auto", "A4", "Letter", "A3"}
Margins == {NaN, Num(-500), Num(0), Num(1000), Num(2550), Num(40000)}
Qualities == {NoQuality, <<48>>, <<51>>, <<53, 48>>, <<49, 48, 49>>, <<45, 51>>,
              <<97, 98, 99>>, <<55, 46, 57>>}
LayoutParams ==
    { [pageSize |-> ps, orientation |-> o, margin |-> m, quality |-> NoQuality] :
        ps \in PageSizes, o \in {"portrait", "landscape"}, m \in Margins }
      \cup { [DefaultParams EXCEPT !.quality = q] : q \in Qualities }

\* What metadata() reports of the images composed: nothing, or a size in pixels.
ImageSizes ==
    { [width |-> 0, height |-> 0], [width |-> 1, height |-> 1],
      [width |-> 100, height |-> 100], [width |-> 800, height |-> 600],
      [width |-> 1000, height |-> 3000], [width |-> 3000, height |-> 1000] }

\* Page layout: documents of one uploaded image, of every size, under every
\* choice of the optional fields.
NextLayout == ImageToPdf(1, {"imgA"}, LayoutParams, ImageSizes)

SpecLayout == Init /\ [][NextLayout]_vars

\* The page counts of the documents rasterized: none, one, two, the last
\* count of one digit, and MaxPages.
PageCounts == {0, 1, 2, 9, MaxPages}

\* Document to images: a session is uploaded and assembled, and then
\* documents, uploaded directly or assembled from the chunks, are rasterized;
\* the cleanup timers run.
NextRaster ==
    \/ /\ nRasterizations = 0
       /\ \/ Upload({"u1"}, {<<49>>}, {TRUE})
          \/ Assemble({"u1"}, {<<"a.png">>})
    \/ PdfToImages(PageCounts, {None, "doc.pdf"})
    \/ Timers

SpecRaster == Init /\ [][NextRaster]_vars

(* ------------------------- upload and assembly ------------------------ *)

AssembledOk == last.op = "assemble" /\ last.res.status = 200

\* The index a stored chunk's name carries: what follows "chunk_".
IndexOfName(name) == SubSeq(name, Len(ChunkPrefix) + 1, Len(name))

IsInteger(s) == s # << >> /\ \A i \in 1..Len(s) : s[i] \in 48..57

RECURSIVE StripZeros(_)
StripZeros(s) == IF Len(s) > 1 /\ Head(s) = 48 THEN StripZeros(Tail(s)) ELSE s

\* a < b for two strings of decimal digits read as integers
NumericLess(a, b) ==
    LET x == StripZeros(a)
        y == StripZeros(b)
    IN  \/ Len(x) < Len(y)
        \/ Len(x) = Len(y) /\ \E i \in 1..Len(x) :
              /\ x[i] < y[i]
              /\ \A j \in 1..(i - 1) : x[j] = y[j]

RECURSIVE Flatten(_)
Flatten(ss) == IF ss = << >> THEN << >> ELSE Head(ss) \o Flatten(Tail(ss))

\* C1: an assembled file holds the session's chunks in ascending numeric
\* order of their indices where the indices are integers (chunk 1, chunk 2,
\* chunk 10), and in lexicographic order of the indices otherwise.
C1_NumericOrder ==
    AssembledOk =>
        \A i, j \in 1..Len(last.parts) :
            ( /\ i < j
              /\ IndexOfName(last.parts[i]) \in ChunkIndices
              /\ IndexOfName(last.parts[j]) \in ChunkIndices ) =>
                LET a == IndexOfName(last.parts[i])
                    b == IndexOfName(last.parts[j])
                IN  IF IsInteger(a) /\ IsInteger(b)
                    THEN NumericLess(a, b)
                    ELSE LocaleCompare(a, b) < 0

\* The chunks of a session listed in ascending order of their stored names.
Ascending(chunks) ==
    CHOOSE l \in Readdir(chunks) :
        \A i, j \in 1..Len(l) : i < j => LocaleCompare(l[i], l[j]) < 0

\* C2: the bytes of an assembled file are those of the session's chunks taken
\* in ascending order of their names, each chunk once, whatever order the
\* chunks were uploaded in and whatever order the directory lists them in.
C2_ArrivalOrderIrrelevant ==
    AssembledOk =>
        LET asc == Ascending(last.chunks)
        IN  assembled[last.outFile] =
                Flatten([i \in 1..Len(asc) |-> last.chunks[asc[i]]])

\* An assembly of two chunks of which the later in the file was uploaded
\* first, listed by the directory in another order than the file has.
C2_Witness ==
    /\ AssembledOk
    /\ Len(last.parts) = 2
    /\ last.chunks[last.parts[1]][1] > last.chunks[last.parts[2]][1]
    /\ last.listing # last.parts

\* The session directory of uid is absent or holds no chunk_* file.
NoStoredChunks(uid) ==
    \/ uid \notin DOMAIN chunkDirs
    \/ \A n \in DOMAIN chunkDirs[uid] : ~StartsWith(n, ChunkPrefix)

\* C3: an assemble request naming an uploadId and a file name, for a session
\* with no stored chunk, is answered 400 with the no-chunks error, and leaves
\* the assembled files and the registry as they were.
C3_NoChunks ==
    [][ ( /\ nAssembles' = nAssembles + 1
          /\ last'.uploadId # None
          /\ last'.filename # NoFilename
          /\ NoStoredChunks(last'.uploadId) )
        => ( /\ last'.res.status = 400
             /\ last'.res.error \in {"No chunks found for uploadId", "No chunks found"}
             /\ assembled' = assembled
             /\ tempStore' = tempStore ) ]_vars

\* Assemble was refused for a session whose directory is there, without a
\* chunk in it, while another session had been assembled before.
C3_Witness ==
    /\ last.op = "assemble"
    /\ last.res.status = 400
    /\ last.res.error = "No chunks found"
    /\ last.uploadId \in DOMAIN chunkDirs

\* C5: every session directory holds one file for each index a chunk was put
\* under and no other file, the file holding the bytes last put under that
\* index; and these are the bytes an assemble reads.
C5_OneChunkPerIndex ==
    /\ DOMAIN chunkDirs = DOMAIN stored
    /\ \A d \in DOMAIN chunkDirs :
          /\ Cardinality(DOMAIN chunkDirs[d]) = Cardinality(DOMAIN stored[d])
          /\ \A idx \in DOMAIN stored[d] :
                /\ ChunkPrefix \o idx \in DOMAIN chunkDirs[d]
                /\ chunkDirs[d][ChunkPrefix \o idx] = stored[d][idx]
    /\ AssembledOk =>
          /\ Len(last.parts) = Cardinality(DOMAIN last.puts)
          /\ \A i \in 1..Len(last.parts) :
                /\ IndexOfName(last.parts[i]) \in DOMAIN last.puts
                /\ last.chunks[last.parts[i]] = last.puts[IndexOfName(last.parts[i])]

\* Two chunks were put under one index of one session, and the assembled
\* file holds the second alone.
C5_Witness ==
    /\ AssembledOk
    /\ nUploads = 2
    /\ Len(last.parts) = 1
    /\ assembled[last.outFile] = <<2>>

(* ------------------------------ registry ------------------------------ *)

\* The keys a request can name: those of the sessions and file names of the
\* model, and the one no assembly registers.
AllKeys ==
    { makeTempKey(u, f) : u \in UploadIds, f \in Filenames }
        \cup DOMAIN registered \cup DOMAIN tempStore \cup {"u9__x.png"}

\* C4: a key no assembly registered resolves to nothing, and a key registered
\* once resolves to the path registered for it, in every state; a conversion
\* refused for a missing key named a key that was never registered.
C4_RegistryStable ==
    /\ \A k \in AllKeys :
          /\ k \notin DOMAIN registered => Resolve(tempStore, k) = None
          /\ (k \in DOMAIN registered /\ Len(registered[k]) = 1)
                => Resolve(tempStore, k) = registered[k][1]
    /\ (last.op = "image-to-pdf" /\ last.res.status = 400 /\ last.hasKeys)
          => last.res.key \notin DOMAIN registered
    /\ (last.op = "pdf-to-images" /\ last.res.status = 400 /\ last.hasKeys
          /\ last.keys # << >>)
          => last.keys[1] \notin DOMAIN registered

\* Two keys were registered, each once, and a conversion has since run from
\* one of them.
C4_Witness ==
    /\ Cardinality(DOMAIN registered) = 2
    /\ \A k \in DOMAIN registered : Len(registered[k]) = 1
    /\ last.op \in {"image-to-pdf", "pdf-to-images"}
    /\ last.res.status = 200
    /\ last.hasKeys

(* ---------------------------- image to pdf ---------------------------- *)

PdfAnswered == last.op = "image-to-pdf" /\ "failed" \in DOMAIN last

\* C6: a document sent for a request of N sources has N pages, and page i
\* shows source i: the i-th uploaded image, or a file registered under the
\* i-th key.
C6_OnePagePerSource ==
    (PdfAnswered /\ last.res.status = 200) =>
        LET pages == last.res.pages
            n == IF last.hasKeys THEN Len(last.keys) ELSE Len(last.uploads)
        IN  /\ Len(pages) = n
            /\ \A i \in 1..n :
                  IF last.hasKeys
                  THEN /\ last.keys[i] \in DOMAIN registered
                       /\ \E r \in 1..Len(registered[last.keys[i]]) :
                             pages[i].image.path = registered[last.keys[i]][r]
                  ELSE pages[i].image.buffer = last.uploads[i]

\* A document of two pages was sent for a request naming two different keys.
C6_Witness ==
    /\ PdfAnswered
    /\ last.res.status = 200
    /\ last.hasKeys
    /\ Len(last.keys) = 2
    /\ Len(last.res.pages) = 2

\* C7: a request one of whose sources could not be decoded or re-encoded is
\* answered 500 with an error and no document; and every document sent has a
\* page for every source of its request.
C7_AllOrNothing ==
    PdfAnswered =>
        /\ last.failed # "no" =>
              /\ last.res.status = 500
              /\ DOMAIN last.res = {"status", "error"}
        /\ "pages" \in DOMAIN last.res => Len(last.res.pages) = Len(last.files)

\* The second source of a request failed after the page of the first was
\* added to the document.
C7_Witness ==
    /\ PdfAnswered
    /\ last.failed \in {"decode", "encode"}
    /\ last.failedAt = 2

(* ---------------------------- pdf to images --------------------------- *)

ZipAnswered == last.op = "pdf-to-images" /\ "exit" \in DOMAIN last

\* C8: the archive sent for a document of K pages has K entries, the i-th
\* named page_<i>.png and holding the image of page i.
C8_ArchiveInPageOrder ==
    (ZipAnswered /\ last.res.status = 200) =>
        LET entries == last.res.entries
        IN  /\ Len(entries) = last.total
            /\ \A i \in 1..Len(entries) :
                  /\ entries[i].name = EntryPrefix \o DecimalString(i) \o PngSuffix
                  /\ entries[i].page = i

\* An archive was sent for a document of ten pages or more.
C8_Witness ==
    /\ ZipAnswered
    /\ last.res.status = 200
    /\ last.total >= 10
    /\ Len(last.res.entries) >= 10

\* C9: pdftoppm is run on a document, and a working directory made, only
\* after a probe that succeeded; a request whose probe failed is answered 500
\* with the unavailable error.
C9_ProbeGuardsRasterizer ==
    /\ \A i \in 1..Len(rasterRuns) : ~rasterRuns[i].probeFailed
    /\ \A w \in DOMAIN workDirs : \E i \in 1..Len(rasterRuns) : rasterRuns[i].workDir = w
    /\ p2i.pc = "rasterize" => ~p2i.probeFailed
    /\ (last.op = "pdf-to-images" /\ "probeFailed" \in DOMAIN last /\ last.probeFailed)
          => /\ last.res.status = 500
             /\ last.res.error = "Server requires pdftoppm (Poppler)"

\* The probe of a request for an uploaded document failed: the document is
\* in scratch storage and no working directory exists.
C9_Witness ==
    /\ last.op = "pdf-to-images"
    /\ "probeFailed" \in DOMAIN last
    /\ last.probeFailed
    /\ pdfScratch # {}
    /\ workDirs = << >>

\* C10: a request whose pdftoppm run exited non-zero or could not be started
\* is answered 500 with an error message and nothing else: no archive
\* headers, no entries, no working directory.
C10_RasterizerFailure ==
    (ZipAnswered /\ last.exit \in {"nonzero", "spawn"}) =>
        /\ last.res.status = 500
        /\ DOMAIN last.res = {"status", "error"}
        /\ last.res.error = "PDF to images conversion failed"

\* pdftoppm exited non-zero after it wrote a page into the working directory.
C10_Witness ==
    /\ ZipAnswered
    /\ last.exit = "nonzero"
    /\ workDirs[last.ranIn] # << >>

(* ------------------------------- cleanup ------------------------------ *)

\* C11: every working directory a request has made and is done with has its
\* deletion scheduled, until the timer deletes it.
C11_CleanupScheduled ==
    \A d \in DOMAIN workDirs :
        \/ p2i.pc = "rasterize" /\ p2i.workDir = d
        \/ d \in DOMAIN timers

(* ----------------------------- page layout ---------------------------- *)

\* A document was sent for a request whose margin field is a number >= 0.
Composed ==
    /\ PdfAnswered
    /\ last.res.status = 200
    /\ ~last.params.margin.nan
    /\ last.params.margin.val >= 0

\* C12: with the auto page size, margin m and an image of w by h pixels, the
\* page is (w + 2m) by (h + 2m) and the image is drawn at (m, m), w wide and
\* h high. Lengths are in hundredths of a point.
C12_AutoPage ==
    (Composed /\ last.params.pageSize \in {None, "auto"}) =>
        \A i \in 1..Len(last.res.pages) :
            LET w == last.metas[i].width
                h == last.metas[i].height
                m == last.params.margin.val
                page == last.res.pages[i].layout
            IN  (w >= 1 /\ h >= 1) =>
                    /\ page.size = <<100 * w + 2 * m, 100 * h + 2 * m>>
                    /\ page.x = m /\ page.y = m
                    /\ page.width = 100 * w /\ page.height = 100 * h

\* A page was composed with the auto page size and a margin of 25.5 points,
\* for an image of 1000 by 3000.
C12_Witness ==
    /\ Composed
    /\ last.params.pageSize = "auto"
    /\ last.params.margin.val = 2550
    /\ Len(last.res.pages) = 1
    /\ last.metas[1] = [width |-> 1000, height |-> 3000]

\* C13: with the A4 or letter preset, portrait and margin m, the image is
\* drawn no wider than presetWidth - 2m, no higher than presetHeight - 2m,
\* and at a scale of at most 1.
C13_FitsInsideMargins ==
    (Composed /\ last.params.pageSize \in {"A4", "Letter"}
              /\ last.params.orientation = "portrait") =>
        \A i \in 1..Len(last.res.pages) :
            LET m == last.params.margin.val
                page == last.res.pages[i].layout
                presetWidth == IF last.params.pageSize = "A4" THEN 59528 ELSE 61200
                presetHeight == IF last.params.pageSize = "A4" THEN 84189 ELSE 79200
            IN  /\ page.width <= presetWidth - 2 * m
                /\ page.height <= presetHeight - 2 * m
                /\ page.scale[1] <= page.scale[2]

\* C14: for every page size, orientation, margin >= 0 and image size, the
\* page's width and height and the image's position are not negative, and
\* the image is drawn at least one point wide and high.
C14_NonNegative ==
    Composed =>
        \A i \in 1..Len(last.res.pages) :
            LET page == last.res.pages[i].layout
            IN  /\ page.size[1] >= 0 /\ page.size[2] >= 0
                /\ page.x >= 0 /\ page.y >= 0
                /\ page.width >= 100 /\ page.height >= 100

\* C16: the quality an image-to-pdf request gives the encoder is an integer
\* of 1..100 whatever its quality field holds, and 80 without the field.
C16_QualityInRange ==
    i2p.pc = "loop" =>
        /\ ~i2p.quality.nan
        /\ i2p.quality.val \in 1..100
        /\ i2p.request.params.quality = NoQuality => i2p.quality.val = 80

(* ------------------------- upload-chunk requests ---------------------- *)

\* C15: an upload-chunk request without an uploadId, a chunk index or a
\* chunk is answered 400.
C15_MissingFieldRejected ==
    ( /\ last.op = "upload"
      /\ (last.uploadId = None \/ last.chunkIndex = NoIndex \/ ~last.hasFile) )
        => last.res.status = 400

\* C19: the chunk of an upload-chunk request answered 200 is in the session
\* directory of the uploadId the response carries, whether the text fields
\* came before the chunk or after it.
C19_StoredUnderReturnedId ==
    (last.op = "upload" /\ last.res.status = 200 /\ "dir" \in DOMAIN last)
        => last.dir = last.res.uploadId

(* ---------------------- assembly and its streams ---------------------- *)

\* C17: a key is registered only for a file whose bytes are all written and
\* which is closed: no registered path has a write stream yet to finish.
C17_DurableWhenRegistered ==
    \A k \in DOMAIN tempStore : tempStore[k] \notin writeStreams

\* C18: an assemble running while a chunk of its session is being written
\* either does not take the chunk or takes all of its bytes.
C18_ChunkWriteAtomic ==
    ( /\ AssembledOk
      /\ last.inFlight.pc = "writing"
      /\ last.inFlight.dir = last.uploadId )
        => \A i \in 1..Len(last.parts) :
              last.parts[i] = last.inFlight.name
                  => last.chunks[last.parts[i]] = last.inFlight.bytes

\* C20: an assemble request naming a file and a session that was assembled,
\* with no chunk put for it since, is answered 400 with the no-chunks error
\* and leaves the registry and the assembled files as they were.
C20_SecondAssembleRejected ==
    [][ ( /\ nAssembles' = nAssembles + 1
          /\ last'.filename # NoFilename
          /\ last'.uploadId \in drained )
        => ( /\ last'.res.status = 400
             /\ last'.res.error \in {"No chunks found for uploadId", "No chunks found"}
             /\ tempStore' = tempStore
             /\ assembled' = assembled ) ]_vars

\* A session was assembled, and the assemble that came next for it was
\* refused: its key is still registered.
C20_Witness ==
    /\ last.op = "assemble"
    /\ last.filename # NoFilename
    /\ last.uploadId \in drained
    /\ last.res.status = 400
    /\ makeTempKey(last.uploadId, last.filename) \in DOMAIN tempStore

\* C21: when an assemble finishes, every chunk of its session whose upload
\* has completed is in the assembled file with the bytes last put for its
\* index, or is still in the session directory.
C21_NoChunkLost ==
    (AssembledOk /\ "left" \in DOMAIN last) =>
        \A idx \in DOMAIN last.puts :
            \/ /\ ChunkName(idx) \in DOMAIN last.chunks
               /\ last.chunks[ChunkName(idx)] = last.puts[idx]
            \/ ChunkName(idx) \in DOMAIN last.left

\* C22: a registry key is registered by one (uploadId, filename) pair only:
\* two assemble calls whose pairs differ get different keys.
C22_KeyOfOnePair ==
    \A k \in DOMAIN owners : Cardinality(owners[k]) = 1
====
